---- MODULE Spec2Model ----
(***************************************************************************)
(* Ledger engine and block ingestion of the AstramChain node.              *)
(*                                                                         *)
(* Strings are modelled by tuples so that values of different kinds stay   *)
(* comparable: the empty tuple is the string of 64 zeros, a pair           *)
(* <<"sha256d", x>> is the hex digest of the bytes x (an ideal, collision  *)
(* free hash), a 1-tuple <<t>> is the free text t.  Option<T> is the empty *)
(* tuple (None) or a 1-tuple (Some).                                       *)
(***************************************************************************)
EXTENDS Integers, Sequences, FiniteSets, TLC

VARIABLES
    db,                  \* Blockchain.db: the RocksDB store, one map per key prefix
    chain_tip,           \* Blockchain.chain_tip: Option<String>
    blockchain,          \* NodeState.blockchain: Vec<Block>
    pending,             \* NodeState.pending: Vec<Transaction>
    seen_tx,             \* NodeState.seen_tx: the txids seen by the HTTP server
    orphan_blocks,       \* NodeState.orphan_blocks: hash -> (Block, received_at)
    mining_cancel_flag,  \* NodeState.mining_cancel_flag
    now,                 \* chrono::Utc::now().timestamp()
    miner,               \* a call of mine_block_with_coinbase: its position and locals
    tasks,               \* the NodeHandle mutex and the tasks that lock it
    accepted,            \* history: the blocks validate_and_insert_block returned Ok for
    last                 \* the most recent call and what it returned

nodeVars == <<blockchain, pending, seen_tx, orphan_blocks, mining_cancel_flag, now, miner, tasks>>
vars == <<db, chain_tip, blockchain, pending, seen_tx, orphan_blocks, mining_cancel_flag,
          now, miner, tasks, accepted, last>>

-----------------------------------------------------------------------------
(* Bounds of the model *)

MaxBlocks == 3          \* successful insertions explored (genesis included)
MaxPending == 1         \* transactions the mempool is filled with
MaxSeen == 1            \* txids the HTTP server is made to remember
MaxOrphans == 1         \* blocks the orphan pool is filled with by peers
MaxWaiting == 2         \* blocks that wait in the orphan pool for one parent
MaxTicks == 2           \* clock steps
TickSeconds == 1801     \* the length of a clock step
MaxEpoch == 34          \* halving epochs (low word) the reward is asked for
MaxMempool == 2         \* transactions the mempool holds when all three entrances feed it
MaxInputs == 2          \* inputs of a transaction a wallet signs
MaxNonce == 5           \* nonces a search tries before it finds a hash
MaxCalls == 2           \* calls of the miner
HeadersCap == 2         \* headers one getheaders reply carries (200 in the source)
YieldCycle == 3         \* nonces between two progress checks (100_000 in the source)

(* Program constants *)

\* 10^18 in the source; scaled down to fit the 32-bit integers of TLC
NATOSHI_PER_NTC == 1000
HALVING_INTERVAL == 210000

-----------------------------------------------------------------------------
(* Option and string values *)

None == << >>
Some(x) == <<x>>

ZeroHash == << >>
sha256d(x) == <<"sha256d", x>>
Text(t) == <<t>>
EmptyString == Text("")

\* hex::decode(h) yields exactly 32 bytes
IsDigest(s) == Len(s) = 2

Min(S) == CHOOSE x \in S : \A y \in S : x <= y

RECURSIVE SumSeq(_)
SumSeq(s) == IF s = << >> THEN 0 ELSE Head(s) + SumSeq(Tail(s))

-----------------------------------------------------------------------------
(* core/src/config.rs *)

initial_block_reward == NATOSHI_PER_NTC * 8

\* a u64 block height, written (epoch_hi * 2^32 + epoch_lo) * HALVING_INTERVAL
\* + offset with epoch_lo < 2^32 and offset < HALVING_INTERVAL, so that the
\* heights above 2^31 can be named with the integers of TLC
U64Height(epoch_hi, epoch_lo, offset) ==
    [epoch_hi |-> epoch_hi, epoch_lo |-> epoch_lo, offset |-> offset]

\* block_height / HALVING_INTERVAL, a u64 in two 32-bit words
DivHalvingInterval(h) == [hi |-> h.epoch_hi, lo |-> h.epoch_lo]

\* (x as u32): the low 32 bits
as_u32(x) == x.lo

\* x >> n for x below 2^31
Shr(x, n) == IF n >= 31 THEN 0 ELSE x \div (2 ^ n)

\* calculate_block_reward on a u64 height
calculate_block_reward_u64(h) ==
    LET halvings == as_u32(DivHalvingInterval(h))
    IN  IF halvings >= 33 THEN 0 ELSE Shr(initial_block_reward, halvings)

calculate_block_reward(block_height) ==
    calculate_block_reward_u64(U64Height(0, block_height \div HALVING_INTERVAL,
                                         block_height % HALVING_INTERVAL))

-----------------------------------------------------------------------------
(* core/src/transaction/mod.rs *)

TransactionInput(txid, vout, pubkey, signature) ==
    [txid |-> txid, vout |-> vout, pubkey |-> pubkey, signature |-> signature]

TransactionOutput(to, amount) == [to |-> to, amount |-> amount]

Transaction(txid, inputs, outputs, timestamp) ==
    [txid |-> txid, inputs |-> inputs, outputs |-> outputs, timestamp |-> timestamp]

\* bincode of (inputs, outputs, timestamp): every field of every input is
\* serialized, the public key and the signature included
serialize_for_hash(tx) == <<tx.inputs, tx.outputs, tx.timestamp>>

compute_txid(tx) == sha256d(serialize_for_hash(tx))

with_txid(tx) == [tx EXCEPT !.txid = compute_txid(tx)]

coinbase(to, amount, timestamp) ==
    with_txid(Transaction(EmptyString, << >>, <<TransactionOutput(to, amount)>>, timestamp))

\* An ed25519 signature is the pair of the key that issued it and the message
\* it was issued for.
Signature(key, msg) == [key |-> key, msg |-> msg]

\* ed25519_dalek::PublicKey::verify is the non-strict check: under the
\* small-order public key (the identity point) the signature (identity, 0)
\* satisfies the verification equation for every message.
WeakKey == "weak"
WeakSig == Signature(WeakKey, << >>)

Ed25519Verify(pk, msg, sig) ==
    IF pk = WeakKey THEN sig = WeakSig
    ELSE sig.key = pk /\ sig.msg = msg

\* Transaction::sign: the message is taken before the signatures are attached
sign(tx, keypair) ==
    LET msg == serialize_for_hash(tx)
    IN  [tx EXCEPT !.inputs =
            [i \in DOMAIN tx.inputs |->
                [tx.inputs[i] EXCEPT !.signature = Some(Signature(keypair, msg)),
                                     !.pubkey = keypair]]]

\* Transaction::verify_signatures: "true" is Ok(true), "false" is Ok(false),
\* "err" is Err(_) of the first input that fails
InputFails(tx, i) ==
    \/ tx.inputs[i].signature = None
    \/ ~Ed25519Verify(tx.inputs[i].pubkey, serialize_for_hash(tx), tx.inputs[i].signature[1])

verify_signatures(tx) ==
    IF tx.inputs = << >> THEN "true"
    ELSE LET bad == {i \in DOMAIN tx.inputs : InputFails(tx, i)}
         IN  IF bad = {} THEN "true"
             ELSE IF tx.inputs[Min(bad)].signature = None THEN "false"
             ELSE "err"

-----------------------------------------------------------------------------
(* core/src/block/mod.rs *)

BlockHeader(index, previous_hash, merkle_root, timestamp, nonce, difficulty) ==
    [index |-> index, previous_hash |-> previous_hash, merkle_root |-> merkle_root,
     timestamp |-> timestamp, nonce |-> nonce, difficulty |-> difficulty]

Block(header, transactions, hash) ==
    [header |-> header, transactions |-> transactions, hash |-> hash]

serialize_header(header) ==
    <<header.index, header.previous_hash, header.merkle_root,
      header.timestamp, header.nonce, header.difficulty>>

compute_header_hash(header) == sha256d(serialize_header(header))

\* a txid that is not the hex of 32 bytes becomes the leaf of 32 zero bytes
MerkleLeaf(h) == IF IsDigest(h) THEN h ELSE ZeroHash

MerklePad(leaves) ==
    IF Len(leaves) % 2 = 1 THEN Append(leaves, leaves[Len(leaves)]) ELSE leaves

MerkleNext(leaves) ==
    [k \in 1..(Len(leaves) \div 2) |-> sha256d(<<leaves[2 * k - 1], leaves[2 * k]>>)]

RECURSIVE MerkleReduce(_)
MerkleReduce(leaves) ==
    IF Len(leaves) > 1 THEN MerkleReduce(MerkleNext(MerklePad(leaves)))
    ELSE leaves[1]

compute_merkle_root(txids) ==
    IF txids = << >> THEN sha256d(<< >>)
    ELSE MerkleReduce([k \in DOMAIN txids |-> MerkleLeaf(txids[k])])

Txids(transactions) == [k \in DOMAIN transactions |-> transactions[k].txid]

-----------------------------------------------------------------------------
(* core/src/utxo.rs, core/src/db/mod.rs *)

Utxo(txid, vout, to, amount) == [txid |-> txid, vout |-> vout, to |-> to, amount |-> amount]

EmptyMap == [x \in {} |-> x]

\* Keys: h:<block_hash>, i:<height>, t:<txid>, u:<txid>:<vout>, tip
EmptyDb == [h |-> EmptyMap, i |-> EmptyMap, t |-> EmptyMap, u |-> EmptyMap, tip |-> None]

MapPut(f, k, v) == [x \in (DOMAIN f) \cup {k} |-> IF x = k THEN v ELSE f[x]]
MapDelete(f, k) == [x \in (DOMAIN f) \ {k} |-> f[x]]

BatchPut(cf, key, value) == [op |-> "put", cf |-> cf, key |-> key, value |-> value]
BatchDelete(cf, key) == [op |-> "delete", cf |-> cf, key |-> key, value |-> None]

ApplyOp(d, o) ==
    IF o.cf = "tip" THEN [d EXCEPT !.tip = Some(o.value)]
    ELSE IF o.op = "put" THEN [d EXCEPT ![o.cf] = MapPut(d[o.cf], o.key, o.value)]
    ELSE [d EXCEPT ![o.cf] = MapDelete(d[o.cf], o.key)]

RECURSIVE ApplyBatch(_, _)
ApplyBatch(d, batch) ==
    IF batch = << >> THEN d ELSE ApplyBatch(ApplyOp(d, Head(batch)), Tail(batch))

\* a store that keeps the first write of a batch that failed
put_batch_partial(d, batch, io_ok) ==
    IF io_ok THEN ApplyBatch(d, batch) ELSE ApplyOp(d, Head(batch))

\* a store that keeps the last write of a batch that failed
put_batch_torn(d, batch, io_ok) ==
    IF io_ok THEN ApplyBatch(d, batch) ELSE ApplyOp(d, batch[Len(batch)])

\* db.write(batch): the whole batch or, on a storage error, nothing
put_batch(d, batch, io_ok) == IF io_ok THEN ApplyBatch(d, batch) ELSE d

-----------------------------------------------------------------------------
(* core/src/blockchain/mod.rs *)

Ok == None
Err(msg, args) == Some([msg |-> msg, args |-> args])
IsOk(res) == res = None
ErrMsg(res) == IF res = None THEN "" ELSE res[1].msg

UtxoPuts(tx) ==
    [v \in DOMAIN tx.outputs |->
        BatchPut("u", <<tx.txid, v - 1>>,
                 Utxo(tx.txid, v - 1, tx.outputs[v].to, tx.outputs[v].amount))]

PersistTx(tx) == <<BatchPut("t", tx.txid, tx)>> \o UtxoPuts(tx)

OutputSum(tx) == SumSeq([v \in DOMAIN tx.outputs |-> tx.outputs[v].amount])

\* the index of the first input whose UTXO key is not in the store, or 0
FirstMissingInput(d, tx) ==
    LET missing == {k \in DOMAIN tx.inputs :
                        <<tx.inputs[k].txid, tx.inputs[k].vout>> \notin DOMAIN d.u}
    IN  IF missing = {} THEN 0 ELSE Min(missing)

\* input_sum: every input adds the amount of the UTXO it names, as read from
\* the store (not from the batch)
InputSum(d, tx) ==
    SumSeq([k \in DOMAIN tx.inputs |->
                d.u[<<tx.inputs[k].txid, tx.inputs[k].vout>>].amount])

SpendDeletes(tx) ==
    [k \in DOMAIN tx.inputs |-> BatchDelete("u", <<tx.inputs[k].txid, tx.inputs[k].vout>>)]

OutputsExceedInputs(d, tx) == OutputSum(tx) > InputSum(d, tx)

\* the loop over block.transactions (1-based here): returns the error of the
\* first transaction that fails, or the batch of all writes
RECURSIVE TxLoop(_, _, _, _)
TxLoop(d, txs, i, batch) ==
    IF i > Len(txs) THEN [res |-> Ok, batch |-> batch]
    ELSE
      LET tx == txs[i]
          ok == verify_signatures(tx)
      IN  IF ok = "err" THEN [res |-> Err("signature error", << >>), batch |-> << >>]
          ELSE IF ok = "false"
            THEN [res |-> Err("tx signature invalid: ", <<tx.txid>>), batch |-> << >>]
          ELSE IF i = 1 THEN TxLoop(d, txs, i + 1, batch \o PersistTx(tx))
          ELSE IF FirstMissingInput(d, tx) # 0
            THEN [res |-> Err("referenced utxo not found ",
                              <<tx.inputs[FirstMissingInput(d, tx)].txid>>),
                  batch |-> << >>]
          ELSE IF OutputsExceedInputs(d, tx)
            THEN [res |-> Err("outputs exceed inputs in tx ", <<tx.txid>>), batch |-> << >>]
          ELSE TxLoop(d, txs, i + 1, batch \o SpendDeletes(tx) \o PersistTx(tx))

HeaderTipWrites(block) ==
    << BatchPut("h", block.hash, block.header),
       BatchPut("i", block.header.index, block.hash),
       BatchPut("tip", << >>, block.hash) >>

\* a validator that looks up no parent: every block passes the parent check
ParentMissing_unchecked(d, block) ==
    FALSE

\* the parent check of validate_and_insert_block: a block above height 0
\* whose previous_hash names no stored header
ParentMissing(d, block) ==
    block.header.index > 0 /\ block.header.previous_hash \notin DOMAIN d.h

\* a validator that looks for the parent before it looks at the block
ValidateBlock_parent_first(d, block) ==
    LET computed == compute_header_hash(block.header)
        merkle == compute_merkle_root(Txids(block.transactions))
        fail(msg, args) == [res |-> Err(msg, args), batch |-> << >>]
    IN  IF ParentMissing(d, block)
          THEN fail("previous header not found: ", <<block.header.previous_hash>>)
        ELSE IF computed # block.hash
          THEN fail("header hash mismatch: computed ", <<computed, block.hash>>)
        ELSE IF merkle # block.header.merkle_root THEN fail("merkle mismatch", << >>)
        ELSE IF block.transactions = << >> THEN fail("empty block", << >>)
        ELSE IF block.transactions[1].inputs # << >>
          THEN fail("coinbase must have no inputs", << >>)
        ELSE LET r == TxLoop(d, block.transactions, 1, << >>)
             IN  IF IsOk(r.res)
                   THEN [res |-> Ok, batch |-> r.batch \o HeaderTipWrites(block)]
                 ELSE r

\* Blockchain::validate_and_insert_block up to the commit: the result and the
\* write batch that was built
ValidateBlock(d, block) ==
    LET computed == compute_header_hash(block.header)
        merkle == compute_merkle_root(Txids(block.transactions))
        fail(msg, args) == [res |-> Err(msg, args), batch |-> << >>]
    IN  IF computed # block.hash
          THEN fail("header hash mismatch: computed ", <<computed, block.hash>>)
        ELSE IF merkle # block.header.merkle_root THEN fail("merkle mismatch", << >>)
        ELSE IF ParentMissing(d, block)
          THEN fail("previous header not found: ", <<block.header.previous_hash>>)
        ELSE IF block.transactions = << >> THEN fail("empty block", << >>)
        ELSE IF block.transactions[1].inputs # << >>
          THEN fail("coinbase must have no inputs", << >>)
        ELSE LET r == TxLoop(d, block.transactions, 1, << >>)
             IN  IF IsOk(r.res)
                   THEN [res |-> Ok, batch |-> r.batch \o HeaderTipWrites(block)]
                 ELSE r

\* the state and the result after the commit, which may fail in the store
CommitResult(v, io_ok) == IF IsOk(v.res) /\ ~io_ok THEN Err("storage error", << >>) ELSE v.res

CommitDb(d, v, io_ok) == IF IsOk(v.res) THEN put_batch(d, v.batch, io_ok) ELSE d

\* a tip set as soon as the block has passed validation
CommitTip_before_write(tip, block, v, io_ok) ==
    IF IsOk(v.res) THEN Some(block.hash) ELSE tip

CommitTip(tip, block, v, io_ok) == IF IsOk(v.res) /\ io_ok THEN Some(block.hash) ELSE tip

CommitBlock(d, tip, block, v, io_ok) ==
    [res |-> CommitResult(v, io_ok),
     db |-> CommitDb(d, v, io_ok),
     chain_tip |-> CommitTip(tip, block, v, io_ok)]

validate_and_insert_block(d, tip, block, io_ok) ==
    CommitBlock(d, tip, block, ValidateBlock(d, block), io_ok)

\* Blockchain::load_header
load_header(d, hash) ==
    IF hash \in DOMAIN d.h THEN Some(d.h[hash]) ELSE None

\* Blockchain::get_balance: the sum over the u: entries that pay address
RECURSIVE BalanceOver(_, _, _)
BalanceOver(d, address, keys) ==
    IF keys = {} THEN 0
    ELSE LET k == CHOOSE x \in keys : TRUE
         IN  (IF d.u[k].to = address THEN d.u[k].amount ELSE 0)
             + BalanceOver(d, address, keys \ {k})

get_balance(d, address) == BalanceOver(d, address, DOMAIN d.u)

\* Blockchain::new: the default difficulty; Blockchain::create_genesis: the
\* amount its coinbase pays
DefaultDifficulty == 2
GenesisAmount == 50

GenesisBlock(address, timestamp) ==
    LET cb == coinbase(address, GenesisAmount, timestamp)
        header == BlockHeader(0, ZeroHash, compute_merkle_root(<<cb.txid>>),
                              timestamp, 0, DefaultDifficulty)
    IN  Block(header, <<cb>>, compute_header_hash(header))

GenesisBatch(block) == PersistTx(block.transactions[1]) \o HeaderTipWrites(block)

\* the ledger log entry of an insertion that returned Ok
Accepted(via, block, d) == [via |-> via, block |-> block, utxo_before |-> d.u]

Called(op, res) == [op |-> op, msg |-> ErrMsg(res), tx |-> None, io |-> TRUE]

\* the same for a transaction handed to the mempool
Submitted(op, msg, tx) == [op |-> op, msg |-> msg, tx |-> Some(tx), io |-> TRUE]

-----------------------------------------------------------------------------
(* core/src/consensus/mod.rs, core/src/consensus/dag.rs *)

compact_to_leading_zeros(bits) ==
    LET exponent == bits \div (2 ^ 24)
    IN  IF exponent = 0 THEN 0
        ELSE IF exponent = 32 THEN 8
        ELSE IF exponent = 31 THEN 6
        ELSE IF exponent = 30 THEN 4
        ELSE IF exponent = 29 THEN 2
        ELSE IF exponent > 32 THEN 8 ELSE 0

\* The number of leading zero nibbles of hex(hash_with_dag(header digest,
\* nonce, DAG)).  The hash is ideal, so the count is an arbitrary fixed function
\* of its input: here nonce 0 gives a hash without leading zeros and every
\* other nonce is one a nonce search stopped at.
PowLeadingZeros(header) == IF header.nonce = 0 THEN 0 ELSE 8

MeetsDifficulty(header) == PowLeadingZeros(header) >= compact_to_leading_zeros(header.difficulty)

EPOCH_LENGTH == 7500

get_epoch(block_number) == block_number \div EPOCH_LENGTH

\* a miner that looks at the flag only at its progress checks
AtLoopTop_unchecked(cancelled) ==
    "hash"

\* the head of the mining loop: the cancellation check before every attempt
AtLoopTop(cancelled) ==
    IF cancelled THEN "cancelled" ELSE "hash"

\* the progress check after every YieldCycle-th nonce
AtProgressCheck(cancelled) ==
    IF cancelled THEN "cancelled" ELSE "loop"

\* no call of mine_block_with_coinbase yet.  generated lists the epochs
\* generate_full_dag has run for; began is the flag as it stood when the
\* current iteration started and late counts the attempts made since the
\* flag was set
IdleMiner ==
    [pc |-> "idle", index |-> 0, nonce |-> 0, generated |-> << >>,
     began |-> FALSE, late |-> 0]

-----------------------------------------------------------------------------
(* node/src/lib.rs: NodeHandle = Arc<Mutex<NodeState>> *)

TaskNames == {"p2p1", "p2p2", "main", "http"}

\* a task: where it stands, the block it holds and what validation returned
IdleTask == [pc |-> "idle", block |-> None, v |-> None]

\* no task runs and the mutex is free
IdleTasks == [guard |-> "free", task |-> [t \in TaskNames |-> IdleTask]]

\* a mutex that is handed to every caller
MayLock_always(guard) ==
    TRUE

\* Mutex::lock returns once no other task holds the guard
MayLock(guard) ==
    guard = "free"

\* a block handler that does not store the cancellation flag
AfterLock_silent(t) ==
    IF t = "http" THEN "read" ELSE "validate"

\* what each task does first under the guard
AfterLock(t) ==
    IF t = "http" THEN "read" ELSE IF t = "main" THEN "validate" ELSE "flag"

-----------------------------------------------------------------------------
(* The blocks a caller may hand to the ledger *)

MinerAddress == "A"
PayeeAddress == "B"
WalletKey == "kA"
TestingBits == 29 * (2 ^ 24)                \* exponent 0x1d: two leading zeros
InjectedText == Text("previous header not found")
UnknownHash == sha256d(Text("unknown"))

\* one clock tick per height
Timestamp(index) == index + 1

\* core/src/crypto/mod.rs, address_from_public_key: "0x" and the first 20
\* bytes of the SHA-256 of the key, one address per key.  The miner's address
\* is the address of the wallet key.
address_from_public_key(pubkey) ==
    CASE pubkey = WalletKey -> MinerAddress
      [] pubkey = "kB" -> PayeeAddress
      [] OTHER -> "0x"

\* the outputs the miner's wallet can spend, and those it can only misname
LiveOutpoints(d) == {o \in DOMAIN d.u : d.u[o].to = MinerAddress}
KnownOutpoints(d) ==
    UNION {{<<id, v - 1>> : v \in DOMAIN d.t[id].outputs} : id \in DOMAIN d.t}
GoneOutpoints(d) == (KnownOutpoints(d) \ DOMAIN d.u) \cup {<<InjectedText, 0>>}
AmountOf(d, o) == IF o \in DOMAIN d.u THEN d.u[o].amount ELSE 1

UnsignedSpend(ins, amount, ts) ==
    with_txid(Transaction(EmptyString,
        [k \in DOMAIN ins |-> TransactionInput(ins[k][1], ins[k][2], WalletKey, None)],
        <<TransactionOutput(PayeeAddress, amount)>>, ts))

\* a spend every input of which carries the small-order key and its signature
WeakSpend(ins, amount, ts) ==
    with_txid(Transaction(EmptyString,
        [k \in DOMAIN ins |-> TransactionInput(ins[k][1], ins[k][2], WeakKey, Some(WeakSig))],
        <<TransactionOutput(PayeeAddress, amount)>>, ts))

\* a transaction without inputs and without value, placed after the coinbase
InputlessTx(ts) == with_txid(Transaction(EmptyString, << >>, << >>, ts))

GoodSpends(d, ts) ==
    {WeakSpend(<<o>>, AmountOf(d, o) - fee, ts) : o \in LiveOutpoints(d), fee \in {0, 1}}

OtherTxs(d, ts) ==
    {WeakSpend(<<o>>, 1, ts) : o \in GoneOutpoints(d)}
    \cup UNION {{ UnsignedSpend(<<o>>, AmountOf(d, o), ts),
                  sign(UnsignedSpend(<<o>>, AmountOf(d, o), ts), WalletKey),
                  WeakSpend(<<o>>, AmountOf(d, o) + 1, ts),
                  WeakSpend(<<o, o>>, 2 * AmountOf(d, o), ts) } : o \in LiveOutpoints(d)}
    \cup {InputlessTx(ts)}

Bodies(d, ts) ==
    {<< >>}
    \cup {<<t>> : t \in GoodSpends(d, ts) \cup OtherTxs(d, ts)}
    \cup {<<WeakSpend(<<o>>, AmountOf(d, o), ts), WeakSpend(<<o>>, AmountOf(d, o) - 1, ts)>>
                : o \in LiveOutpoints(d)}

RECURSIVE Fees(_, _)
Fees(d, body) ==
    IF body = << >> THEN 0
    ELSE (IF FirstMissingInput(d, Head(body)) = 0
            THEN InputSum(d, Head(body)) - OutputSum(Head(body)) ELSE 0)
         + Fees(d, Tail(body))

MkBlock(index, prev, nonce, txs) ==
    LET header == BlockHeader(index, prev, compute_merkle_root(Txids(txs)),
                              Timestamp(index), nonce, TestingBits)
    IN  Block(header, txs, compute_header_hash(header))

\* a block as an honest miner would build it on a stored parent
MinedBlock(d, parent, body) ==
    LET index == d.h[parent].index + 1
        cb == coinbase(MinerAddress, calculate_block_reward(index) + Fees(d, body),
                       Timestamp(index))
    IN  MkBlock(index, parent, 1, <<cb>> \o body)

\* the same on an empty body, with one deviation
Deviations ==
    {"bad_pow", "overpay", "bad_hash", "injected_hash", "bad_merkle",
     "unknown_parent", "empty", "coinbase_input", "stale_index"}

DeviantBlock(d, parent, kind) ==
    LET index == d.h[parent].index + 1
        reward == calculate_block_reward(index)
        cb == coinbase(MinerAddress, reward, Timestamp(index))
        good == MkBlock(index, parent, 1, <<cb>>)
    IN  CASE kind = "bad_pow" -> MkBlock(index, parent, 0, <<cb>>)
          [] kind = "overpay" ->
                MkBlock(index, parent, 1, <<coinbase(MinerAddress, reward + 1, Timestamp(index))>>)
          [] kind = "bad_hash" -> [good EXCEPT !.hash = UnknownHash]
          [] kind = "injected_hash" -> [good EXCEPT !.hash = InjectedText]
          [] kind = "bad_merkle" -> [good EXCEPT !.header.merkle_root = ZeroHash,
                      !.hash = compute_header_hash([good.header EXCEPT !.merkle_root = ZeroHash])]
          [] kind = "unknown_parent" -> MkBlock(index, UnknownHash, 1, <<cb>>)
          [] kind = "empty" -> MkBlock(index, parent, 1, << >>)
          [] kind = "coinbase_input" ->
                MkBlock(index, parent, 1, <<WeakSpend(<<<<cb.txid, 0>>>>, reward, Timestamp(index))>>)
          [] kind = "stale_index" ->
                MkBlock(index - 1, parent, 1,
                        <<coinbase(PayeeAddress, calculate_block_reward(index - 1),
                                   Timestamp(index))>>)

\* another miner's block on a stored parent, spending an output that is
\* known to the store
ForkBlock(d, parent, o) ==
    LET index == d.h[parent].index + 1
        ts == Timestamp(index)
    IN  MkBlock(index, parent, 1,
                <<coinbase(PayeeAddress, calculate_block_reward(index), ts),
                  WeakSpend(<<o>>, d.t[o[1]].outputs[o[2] + 1].amount, ts)>>)

\* the blocks of a competing branch: on a parent below the tip, spending an
\* output the current branch has spent
ForkBlocks(d) ==
    {ForkBlock(d, p, o) : p \in {q \in DOMAIN d.h : d.tip # Some(q)},
                          o \in KnownOutpoints(d) \ DOMAIN d.u}

CandidateBlocks(d) ==
    {GenesisBlock(MinerAddress, Timestamp(0))}
    \cup {MinedBlock(d, p, << >>) : p \in DOMAIN d.h}
    \cup ForkBlocks(d)
    \cup UNION {{MinedBlock(d, p, body) : body \in Bodies(d, Timestamp(d.h[p].index + 1))}
                : p \in {q \in DOMAIN d.h : d.tip = Some(q)}}
    \cup {DeviantBlock(d, p, kind) : p \in {q \in DOMAIN d.h : d.tip = Some(q)},
                                     kind \in Deviations}

-----------------------------------------------------------------------------
(* The ledger as a state machine *)

\* NodeState as main() builds it
NodeInit ==
    /\ pending = << >>
    /\ seen_tx = {}
    /\ orphan_blocks = EmptyMap
    /\ mining_cancel_flag = FALSE
    /\ now = 0
    /\ miner = IdleMiner
    /\ tasks = IdleTasks

Init ==
    /\ db = EmptyDb
    /\ chain_tip = None
    /\ blockchain = << >>
    /\ NodeInit
    /\ accepted = << >>
    /\ last = Called("new", Ok)

\* Blockchain::create_genesis
CreateGenesis ==
    /\ Len(accepted) < MaxBlocks
    /\ \E io_ok \in BOOLEAN :
        LET block == GenesisBlock(MinerAddress, Timestamp(0)) IN
        IF chain_tip # None
          THEN /\ last' = Called("create_genesis", Err("chain already exists", << >>))
               /\ UNCHANGED <<db, chain_tip, accepted>>
               /\ UNCHANGED nodeVars
        ELSE IF ~io_ok
          THEN /\ last' = Called("create_genesis", Err("storage error", << >>))
               /\ UNCHANGED <<db, chain_tip, accepted>>
               /\ UNCHANGED nodeVars
        ELSE /\ db' = put_batch(db, GenesisBatch(block), io_ok)
             /\ chain_tip' = Some(block.hash)
             /\ accepted' = Append(accepted, Accepted("create_genesis", block, db))
             /\ last' = Called("create_genesis", Ok)
             /\ UNCHANGED nodeVars

\* Blockchain::validate_and_insert_block, called with any block
InsertBlock ==
    /\ Len(accepted) < MaxBlocks
    /\ \E block \in CandidateBlocks(db) :
       \E io_ok \in IF IsOk(ValidateBlock(db, block).res) THEN BOOLEAN ELSE {TRUE} :
        LET r == validate_and_insert_block(db, chain_tip, block, io_ok) IN
        /\ db' = r.db
        /\ chain_tip' = r.chain_tip
        /\ accepted' = IF IsOk(r.res)
                          THEN Append(accepted, Accepted("validate_and_insert_block", block, db))
                          ELSE accepted
        /\ last' = Called("validate_and_insert_block", r.res)
        /\ UNCHANGED nodeVars

\* blocks with any combination of defects: a wrong hash, a wrong Merkle root,
\* an unknown parent, no transactions or a coinbase with an input, and a body
\* of transactions that are unsigned, spend a missing output or pay too much
Faults == {"hash", "merkle", "parent"}
Heads == {"coinbase", "empty", "coinbase_input"}
BodyKinds == {<< >>, <<"good">>, <<"unsigned">>, <<"gone">>, <<"overspend">>,
              <<"gone", "unsigned">>, <<"overspend", "unsigned">>}

FaultyTx(d, kind, o, ts) ==
    CASE kind = "good" -> WeakSpend(<<o>>, AmountOf(d, o), ts)
      [] kind = "unsigned" -> UnsignedSpend(<<o>>, AmountOf(d, o), ts + 1)
      [] kind = "gone" -> WeakSpend(<<<<UnknownHash, 0>>>>, 1, ts)
      [] kind = "overspend" -> WeakSpend(<<o>>, AmountOf(d, o) + 1, ts)

FaultyBlock(d, parent, o, faults, head, body) ==
    LET index == d.h[parent].index + 1
        ts == Timestamp(index)
        cb == coinbase(MinerAddress, calculate_block_reward(index), ts)
        first == CASE head = "coinbase" -> <<cb>>
                   [] head = "empty" -> << >>
                   [] head = "coinbase_input" -> <<WeakSpend(<<o>>, 1, ts + 2)>>
        txs == first \o (IF head = "empty" THEN << >>
                         ELSE [k \in DOMAIN body |-> FaultyTx(d, body[k], o, ts)])
        header == BlockHeader(index,
                              IF "parent" \in faults THEN UnknownHash ELSE parent,
                              IF "merkle" \in faults THEN InjectedText
                                ELSE compute_merkle_root(Txids(txs)),
                              ts, 1, TestingBits)
    IN  Block(header, txs,
              IF "hash" \in faults THEN UnknownHash ELSE compute_header_hash(header))

FaultyBlocks(d) ==
    {FaultyBlock(d, p, o, faults, head, body) :
        p \in {q \in DOMAIN d.h : d.tip = Some(q)}, o \in LiveOutpoints(d),
        faults \in SUBSET Faults, head \in Heads, body \in BodyKinds}

\* Blockchain::validate_and_insert_block, called with a block of any defects
InsertFaultyBlock ==
    /\ Len(accepted) < MaxBlocks
    /\ \E block \in FaultyBlocks(db) :
       \E io_ok \in IF IsOk(ValidateBlock(db, block).res) THEN BOOLEAN ELSE {TRUE} :
        LET r == validate_and_insert_block(db, chain_tip, block, io_ok) IN
        /\ db' = r.db
        /\ chain_tip' = r.chain_tip
        /\ accepted' = IF IsOk(r.res)
                          THEN Append(accepted, Accepted("validate_and_insert_block", block, db))
                          ELSE accepted
        /\ last' = [op |-> "validate_and_insert_block", msg |-> ErrMsg(r.res),
                    block |-> block, before |-> db]
        /\ UNCHANGED nodeVars

NextChecks == CreateGenesis \/ InsertFaultyBlock

SpecChecks == Init /\ [][NextChecks]_vars

\* Blockchain::new on the store as it is: chain_tip is read from the tip key
Reopen ==
    /\ chain_tip' = db.tip
    /\ last' = Called("new", Ok)
    /\ UNCHANGED <<db, accepted>>
    /\ UNCHANGED nodeVars

NextInstances == CreateGenesis \/ InsertBlock \/ Reopen

SpecInstances == Init /\ [][NextInstances]_vars

Next == CreateGenesis \/ InsertBlock

Spec == Init /\ [][Next]_vars

-----------------------------------------------------------------------------
(* The pure functions of the core, called by a wallet or a miner *)

\* the heights the reward is asked for: the first and the last block of an
\* epoch, below and above 2^32 epochs
Heights ==
    {U64Height(hi, lo, offset) :
        hi \in {0, 1}, lo \in 0..MaxEpoch, offset \in {0, HALVING_INTERVAL - 1}}

\* a call of calculate_block_reward
CalculateBlockReward ==
    /\ \E h \in Heights :
          last' = [op |-> "calculate_block_reward", height |-> h,
                   reward |-> calculate_block_reward_u64(h)]
    /\ UNCHANGED <<db, chain_tip, accepted>>
    /\ UNCHANGED nodeVars

\* the transactions a wallet builds before signing: every input names an
\* outpoint and carries no signature; its pubkey field is empty or filled
WalletKeys == {"kA", "kB"}

WalletInputs ==
    {TransactionInput(txid, 0, pubkey, None) :
        txid \in {ZeroHash, UnknownHash}, pubkey \in {"", "kA"}}

WalletTxs ==
    {Transaction(EmptyString, inputs, <<TransactionOutput(PayeeAddress, amount)>>, ts) :
        inputs \in UNION {[1..n -> WalletInputs] : n \in 0..MaxInputs},
        amount \in {10, 11}, ts \in {1, 2}}

\* tx.sign(&keypair) followed by tx.verify_signatures()
SignAndVerify ==
    /\ \E tx \in WalletTxs, keypair \in WalletKeys :
          last' = [op |-> "sign", before |-> tx, keypair |-> keypair,
                   after |-> sign(tx, keypair),
                   verified |-> verify_signatures(sign(tx, keypair))]
    /\ UNCHANGED <<db, chain_tip, accepted>>
    /\ UNCHANGED nodeVars

NextWallet == SignAndVerify

SpecWallet == Init /\ [][NextWallet]_vars

\* mine_block_with_coinbase up to the loop: the DAG of the epoch is generated
MinerHeights == {1, 2, EPOCH_LENGTH}

MineBlockWithCoinbase ==
    /\ miner.pc \in {"idle", "mined", "cancelled"}
    /\ Len(miner.generated) < MaxCalls
    /\ \E index \in MinerHeights :
          miner' = [pc |-> "loop", index |-> index, nonce |-> 0,
                    generated |-> Append(miner.generated, get_epoch(index)),
                    began |-> mining_cancel_flag, late |-> 0]
    /\ UNCHANGED <<db, chain_tip, blockchain, pending, seen_tx, orphan_blocks,
                   mining_cancel_flag, now, tasks, accepted, last>>

\* the block handler of another task stores the flag
StoreCancelFlag ==
    /\ ~mining_cancel_flag
    /\ mining_cancel_flag' = TRUE
    /\ UNCHANGED <<db, chain_tip, blockchain, pending, seen_tx, orphan_blocks,
                   now, miner, tasks, accepted, last>>

\* loop { if cancel_flag.load() { return Err } ...
LoopTop ==
    /\ miner.pc = "loop"
    /\ miner' = [miner EXCEPT !.pc = AtLoopTop(mining_cancel_flag),
                              !.began = mining_cancel_flag]
    /\ UNCHANGED <<db, chain_tip, blockchain, pending, seen_tx, orphan_blocks,
                   mining_cancel_flag, now, tasks, accepted, last>>

\* dag::hash_with_dag(header_hash, nonce, dag): the memory-hard hash, ideal
hash_with_dag(header_hash, nonce, epoch) == <<"hash_with_dag", header_hash, nonce, epoch>>

\* the header built before the loop: nonce 0, and the coinbase as only
\* transaction
MiningBody(index) ==
    <<coinbase(MinerAddress, calculate_block_reward(index), Timestamp(index))>>

MiningHeader(index) ==
    BlockHeader(index, UnknownHash, compute_merkle_root(Txids(MiningBody(index))),
                Timestamp(index), 0, DefaultDifficulty)

\* header.nonce = nonce; Block { header: header.clone(), transactions, hash }
\* where hash is the hex of hash_with_dag over the hash of the nonce-0 header
ReturnedBlock(index, nonce) ==
    Block([MiningHeader(index) EXCEPT !.nonce = nonce], MiningBody(index),
          hash_with_dag(compute_header_hash(MiningHeader(index)), nonce, get_epoch(index)))

\* hash_with_dag of the nonce: the block is returned, or the nonce advances
HashNonce ==
    /\ miner.pc = "hash"
    /\ \E found \in BOOLEAN :
          LET late == IF mining_cancel_flag THEN miner.late + 1 ELSE miner.late IN
          IF found
            THEN /\ miner' = [miner EXCEPT !.pc = "mined", !.late = late]
                 /\ last' = [op |-> "mine", msg |-> "", nonce |-> miner.nonce,
                             block |-> ReturnedBlock(miner.index, miner.nonce)]
          ELSE /\ miner.nonce < MaxNonce
               /\ miner' = [miner EXCEPT
                              !.nonce = @ + 1, !.late = late,
                              !.pc = IF (miner.nonce + 1) % YieldCycle = 0
                                       THEN "check" ELSE "loop"]
               /\ UNCHANGED last
    /\ UNCHANGED <<db, chain_tip, blockchain, pending, seen_tx, orphan_blocks,
                   mining_cancel_flag, now, tasks, accepted>>

\* if nonce % 100_000 == 0 { if cancel_flag.load() { return Err } ... }
ProgressCheck ==
    /\ miner.pc = "check"
    /\ miner' = [miner EXCEPT !.pc = AtProgressCheck(mining_cancel_flag)]
    /\ UNCHANGED <<db, chain_tip, blockchain, pending, seen_tx, orphan_blocks,
                   mining_cancel_flag, now, tasks, accepted, last>>

NextMiner == MineBlockWithCoinbase \/ StoreCancelFlag \/ LoopTop \/ HashNonce \/ ProgressCheck

SpecMiner == Init /\ [][NextMiner]_vars

NextConfig == CalculateBlockReward

SpecConfig == Init /\ [][NextConfig]_vars

-----------------------------------------------------------------------------
(* node/src/p2p/service.rs, node/src/server/mod.rs: the node around the ledger *)

max_iterations == 3           \* scaled: 100 in service.rs
one_hour == 3600

\* node/src/lib.rs
MAX_ORPHAN_BLOCKS == 1       \* scaled: 100 in lib.rs
ORPHAN_TIMEOUT == 1800

\* Blockchain::load_block is not among the sources: a block can be loaded
\* when its header is stored
load_block(d, hash) == IF hash \in DOMAIN d.h THEN Some(d.h[hash]) ELSE None

\* Blockchain::reorganize_if_needed is not among the sources: the chain of
\* the block named must be higher than the chain of the tip for the state to
\* move to it
reorganize_if_needed(d, tip, new_hash) ==
    LET higher == /\ tip # None
                  /\ tip[1] \in DOMAIN d.h
                  /\ new_hash \in DOMAIN d.h
                  /\ d.h[new_hash].index > d.h[tip[1]].index
    IN  IF higher
          THEN [reorganized |-> TRUE, db |-> [d EXCEPT !.tip = Some(new_hash)],
                chain_tip |-> Some(new_hash)]
        ELSE [reorganized |-> FALSE, db |-> d, chain_tip |-> tip]

\* format!("{:?}", e).contains("previous header not found"): the message of
\* the error is its literal followed by the strings formatted into it; a hex
\* digest never contains the marker, a free text does when it embeds it
ContainsMarker(res) ==
    /\ ~IsOk(res)
    /\ \/ res[1].msg = "previous header not found: "
       \/ \E k \in DOMAIN res[1].args : res[1].args[k] = InjectedText

\* a handler that empties the mempool whenever a block is accepted
RetainNotIn_clear(pend, block) ==
    << >>

\* state.pending.retain(|tx| !block_txids.contains(&tx.txid))
RetainNotIn(pend, block) ==
    SelectSeq(pend, LAMBDA tx :
        \A i \in DOMAIN block.transactions : block.transactions[i].txid # tx.txid)

NodeView ==
    [db |-> db, chain_tip |-> chain_tip, blockchain |-> blockchain, pending |-> pending,
     orphan_blocks |-> orphan_blocks, accepted |-> accepted, passes |-> << >>]

\* the Ok branch of both callers of validate_and_insert_block; g is what
\* reorganize_if_needed returned
Reorganized(st, block, g, via) ==
    [st EXCEPT !.db = g.db,
               !.chain_tip = g.chain_tip,
               !.blockchain = Append(@, block),
               !.pending = RetainNotIn(@, block),
               !.accepted = Append(@, Accepted(via, block, st.db))]

AfterAccept(st, block, r, via) ==
    Reorganized(st, block, reorganize_if_needed(r.db, r.chain_tip, block.hash), via)

\* one orphan of the snapshot; r is what validate_and_insert_block returned
OrphanOutcome(st, hash, block, r) ==
    IF load_block(st.db, block.header.previous_hash) = None
      THEN [st |-> st, processed |-> FALSE]
    ELSE IF IsOk(r.res)
      THEN [st |-> [AfterAccept(st, block, r, "process_orphan_blocks")
                        EXCEPT !.orphan_blocks = MapDelete(@, hash)],
            processed |-> TRUE]
    ELSE [st |-> [st EXCEPT !.db = r.db, !.chain_tip = r.chain_tip], processed |-> FALSE]

TryOrphan(st, hash, io_ok) ==
    OrphanOutcome(st, hash, st.orphan_blocks[hash].block,
                  validate_and_insert_block(st.db, st.chain_tip,
                                            st.orphan_blocks[hash].block, io_ok))

\* the for loop over the snapshot
RECURSIVE OrphanPass(_, _, _, _)
OrphanPassAfter(t, orphans_to_try, io_ok, processed_any) ==
    OrphanPass(t.st, orphans_to_try, io_ok, processed_any \/ t.processed)

OrphanPass(st, orphans_to_try, io_ok, processed_any) ==
    IF orphans_to_try = << >> THEN [st |-> st, processed_any |-> processed_any]
    ELSE OrphanPassAfter(TryOrphan(st, Head(orphans_to_try), io_ok),
                         Tail(orphans_to_try), io_ok, processed_any)

\* a pool that is never looked at again
Snapshot_none(st, order) ==
    << >>

\* orphan_blocks.iter(): the keys still in the pool, in the order of the HashMap
Snapshot(st, order) == SelectSeq(order, LAMBDA h : h \in DOMAIN st.orphan_blocks)

\* while processed_any && iterations < max_iterations
RECURSIVE OrphanLoop(_, _, _, _)
\* a loop that starts another pass whatever the last pass did
Again_always(processed_any) ==
    TRUE

\* while processed_any: the condition under which another pass starts
Again(processed_any) ==
    processed_any

\* passes is the history of the loop: what each pass left in processed_any
PassDone(st, processed_any) ==
    [st EXCEPT !.passes = Append(@, processed_any)]

OrphanLoopAfter(p, iterations, order, io_ok) ==
    IF Again(p.processed_any)
      THEN OrphanLoop(PassDone(p.st, p.processed_any), iterations, order, io_ok)
    ELSE PassDone(p.st, p.processed_any)

OrphanLoop(st, iterations, order, io_ok) ==
    IF iterations >= max_iterations THEN st
    ELSE OrphanLoopAfter(OrphanPass(st, Snapshot(st, order), io_ok, FALSE),
                         iterations + 1, order, io_ok)

DropOldOrphans(orphans, t) ==
    [h \in {x \in DOMAIN orphans : ~(t - orphans[x].received_at > one_hour)} |-> orphans[h]]

process_orphan_blocks(st, order, io_ok, t) ==
    [OrphanLoop(st, 0, order, io_ok) EXCEPT !.orphan_blocks = DropOldOrphans(@, t)]

Orders(S) ==
    {s \in [1..Cardinality(S) -> S] : \A i, j \in DOMAIN s : s[i] = s[j] => i = j}

\* a block built on a block that has not been delivered yet
ChildOfUnmined(d, parent) ==
    LET p == MinedBlock(d, parent, << >>)
        index == p.header.index + 1
    IN  MkBlock(index, p.hash, 1,
                <<coinbase(MinerAddress, calculate_block_reward(index), Timestamp(index))>>)

\* another miner's block on the same undelivered parent, with a body
TwinOfUnmined(d, parent, body) ==
    LET p == MinedBlock(d, parent, << >>)
        index == p.header.index + 1
    IN  MkBlock(index, p.hash, 1,
                <<coinbase(PayeeAddress, calculate_block_reward(index), Timestamp(index))>>
                \o body)

\* what peers deliver: the next block, empty or spending an output that is
\* not in the UTXO set; blocks that fail before the transactions are looked
\* at; a block that arrives before its parent; a block that is already stored
PeerDeviations == {"bad_hash", "injected_hash", "unknown_parent"}

PeerBlocks(d) ==
    {GenesisBlock(MinerAddress, Timestamp(0))}
    \cup UNION {{MinedBlock(d, p, << >>), ChildOfUnmined(d, p)}
                \cup {MinedBlock(d, p, <<WeakSpend(<<o>>, 1, Timestamp(d.h[p].index + 1))>>)
                        : o \in GoneOutpoints(d)}
                \cup {DeviantBlock(d, p, kind) : kind \in PeerDeviations}
                : p \in {q \in DOMAIN d.h : d.tip = Some(q)}}

\* blocks that arrive out of order: the next block and two blocks built on it
FamilyBlocks(d) ==
    UNION {{MinedBlock(d, p, << >>), ChildOfUnmined(d, p), TwinOfUnmined(d, p, << >>)}
           : p \in {q \in DOMAIN d.h : d.tip = Some(q)}}

\* blocks that take the mempool with them: the next block, empty or with the
\* mempool, and a block with the mempool that arrives before its parent
PoolBlocks(d, pend) ==
    UNION {{MinedBlock(d, p, << >>), MinedBlock(d, p, pend), TwinOfUnmined(d, p, pend)}
           : p \in {q \in DOMAIN d.h : d.tip = Some(q)}}

\* what an honest miner delivers: the next block, empty or with the mempool
HonestBlocks(d, pend) ==
    UNION {{MinedBlock(d, p, << >>), MinedBlock(d, p, pend)}
           : p \in {q \in DOMAIN d.h : d.tip = Some(q)}}

\* the transactions a wallet or a peer may submit: built for the next block
NextTimestamp(d) == IF d.tip = None THEN Timestamp(0) ELSE Timestamp(d.h[d.tip[1]].index + 1)

\* the coin the wallet spends: the coinbase output of the tip block
NewestCoin(d) ==
    {o \in LiveOutpoints(d) :
        /\ d.tip # None
        /\ d.t[o[1]].inputs = << >>
        /\ d.t[o[1]].timestamp = d.h[d.tip[1]].timestamp}

SubmittedTxs(d) ==
    UNION {{ WeakSpend(<<o>>, AmountOf(d, o), NextTimestamp(d)),
             UnsignedSpend(<<o>>, AmountOf(d, o), NextTimestamp(d)),
             sign(UnsignedSpend(<<o>>, AmountOf(d, o), NextTimestamp(d)), WalletKey) }
           : o \in NewestCoin(d)}
    \cup {InputlessTx(NextTimestamp(d))}

\* main(): the chain is empty, create_genesis has run, and the in-memory view
\* holds the genesis header without its transactions
InitNode ==
    LET genesis == GenesisBlock(MinerAddress, Timestamp(0)) IN
    /\ db = put_batch(EmptyDb, GenesisBatch(genesis), TRUE)
    /\ chain_tip = Some(genesis.hash)
    /\ blockchain = <<Block(genesis.header, << >>, genesis.hash)>>
    /\ NodeInit
    /\ accepted = <<Accepted("create_genesis", genesis, EmptyDb)>>
    /\ last = Called("create_genesis", Ok)

\* the Ok branch of the block handler has left the node in st
NodeBecomes(st) ==
    /\ db' = st.db
    /\ chain_tip' = st.chain_tip
    /\ blockchain' = st.blockchain
    /\ pending' = st.pending
    /\ orphan_blocks' = st.orphan_blocks
    /\ accepted' = st.accepted

\* the closure registered with set_on_block, as a function of the node state:
\* r is what validate_and_insert_block returned and t the time of receipt
on_block(st, block, r, order, orphan_io, t) ==
    IF IsOk(r.res)
      THEN process_orphan_blocks(AfterAccept(st, block, r, "on_block"), order, orphan_io, t)
    ELSE IF ContainsMarker(r.res)
      THEN [st EXCEPT !.db = r.db,
                      !.chain_tip = r.chain_tip,
                      !.orphan_blocks =
                          MapPut(@, block.hash, [block |-> block, received_at |-> t])]
    ELSE [st EXCEPT !.db = r.db, !.chain_tip = r.chain_tip]

\* the handler has left the node in st; the call and its orphan passes are
\* recorded
Handled(st, r, orphan_io) ==
    /\ NodeBecomes(st)
    /\ last' = [op |-> "on_block", msg |-> ErrMsg(r.res), tx |-> None,
                io |-> IsOk(r.res) => orphan_io, passes |-> st.passes]

\* the block handler after validate_and_insert_block returned r
HandleBlock(block, r, order, orphan_io, max_orphans) ==
    /\ mining_cancel_flag' = TRUE
    /\ UNCHANGED <<seen_tx, now, miner, tasks>>
    /\ ContainsMarker(r.res) =>
          \/ block.hash \in DOMAIN orphan_blocks
          \/ Cardinality(DOMAIN orphan_blocks) < max_orphans
    /\ Handled(on_block(NodeView, block, r, order, orphan_io, now), r, orphan_io)

\* the block handler registered with set_on_block, called with a block of blocks
OnBlockFrom(blocks, max_orphans) ==
    /\ Len(accepted) < MaxBlocks
    /\ \E block \in blocks :
       \E io_ok \in IF IsOk(ValidateBlock(db, block).res) THEN BOOLEAN ELSE {TRUE} :
       \E order \in Orders(DOMAIN orphan_blocks) :
       \E orphan_io \in IF orphan_blocks = EmptyMap THEN {TRUE} ELSE BOOLEAN :
        HandleBlock(block, validate_and_insert_block(db, chain_tip, block, io_ok),
                    order, orphan_io, max_orphans)

OnBlock == OnBlockFrom(PeerBlocks(db), MaxOrphans)

OnFamilyBlock == OnBlockFrom(FamilyBlocks(db), MaxWaiting)

OnPoolBlock == OnBlockFrom(PoolBlocks(db, pending), MaxOrphans)

OnMinedBlock == OnBlockFrom(HonestBlocks(db, pending), MaxOrphans)

InMempool(tx) == \E k \in DOMAIN pending : pending[k].txid = tx.txid

\* the transaction handler registered with set_on_tx, called with one of txs
OnTxUpTo(txs, max_pending) ==
    \E tx \in txs :
        LET ok == verify_signatures(tx) IN
        /\ UNCHANGED <<db, chain_tip, blockchain, seen_tx, orphan_blocks,
                       mining_cancel_flag, now, miner, tasks, accepted>>
        /\ IF InMempool(tx)
             THEN /\ last' = Submitted("on_tx", "already in mempool", tx)
                  /\ UNCHANGED pending
           ELSE IF ok = "true"
             THEN /\ Len(pending) < max_pending
                  /\ pending' = Append(pending, tx)
                  /\ last' = Submitted("on_tx", "", tx)
           ELSE /\ last' = Submitted("on_tx", IF ok = "false" THEN "invalid signature"
                                                ELSE "validation error", tx)
                /\ UNCHANGED pending

OnTxFrom(txs) == OnTxUpTo(txs, MaxPending)

OnTx == OnTxFrom(SubmittedTxs(db))

\* the transactions the mempool takes: spends under the small-order key
PoolTxs(d) ==
    {WeakSpend(<<o>>, AmountOf(d, o), NextTimestamp(d)) : o \in NewestCoin(d)}

OnPoolTx == OnTxFrom(PoolTxs(db))

\* the node filling its mempool and receiving the blocks that empty it
NextPool == OnPoolTx \/ OnPoolBlock

SpecPool == InitNode /\ [][NextPool]_vars

\* POST /tx
PostTxUpTo(txs, max_pending) ==
    \E tx \in txs :
        /\ UNCHANGED <<db, chain_tip, blockchain, orphan_blocks,
                       mining_cancel_flag, now, miner, tasks, accepted>>
        /\ IF tx.txid \in seen_tx
             THEN /\ last' = Submitted("post_tx", "duplicate", tx)
                  /\ UNCHANGED <<pending, seen_tx>>
           ELSE IF verify_signatures(tx) = "true"
             THEN /\ Len(pending) < max_pending
                  /\ Cardinality(seen_tx) < MaxSeen
                  /\ seen_tx' = seen_tx \cup {tx.txid}
                  /\ pending' = Append(pending, tx)
                  /\ last' = Submitted("post_tx", "", tx)
           ELSE /\ last' = Submitted("post_tx", "invalid signature", tx)
                /\ UNCHANGED <<pending, seen_tx>>

PostTx == PostTxUpTo(SubmittedTxs(db), MaxPending)

\* POST /tx/relay
RelayTxUpTo(max_pending) ==
    \E tx \in SubmittedTxs(db) :
        /\ UNCHANGED <<db, chain_tip, blockchain, orphan_blocks,
                       mining_cancel_flag, now, miner, tasks, accepted>>
        /\ IF tx.txid \in seen_tx
             THEN /\ last' = Submitted("relay_tx", "duplicate", tx)
                  /\ UNCHANGED <<pending, seen_tx>>
           ELSE /\ Cardinality(seen_tx) < MaxSeen
                /\ seen_tx' = seen_tx \cup {tx.txid}
                /\ IF verify_signatures(tx) = "true"
                     THEN /\ Len(pending) < max_pending
                          /\ pending' = Append(pending, tx)
                          /\ last' = Submitted("relay_tx", "", tx)
                   ELSE /\ last' = Submitted("relay_tx", "relay invalid signature", tx)
                        /\ UNCHANGED pending

RelayTx == RelayTxUpTo(MaxPending)

\* the three entrances of the mempool side by side
OnWireTx == OnTxUpTo(SubmittedTxs(db), MaxMempool)

PostWireTx == PostTxUpTo(SubmittedTxs(db), MaxMempool)

RelayWireTx == RelayTxUpTo(MaxMempool)

NextSubmit == OnWireTx \/ PostWireTx \/ RelayWireTx

SpecSubmit == InitNode /\ [][NextSubmit]_vars

\* time passes while blocks wait in the orphan pool
Tick ==
    /\ orphan_blocks # EmptyMap
    /\ now < MaxTicks * TickSeconds
    /\ now' = now + TickSeconds
    /\ UNCHANGED <<db, chain_tip, blockchain, pending, seen_tx, orphan_blocks,
                   mining_cancel_flag, miner, tasks, accepted, last>>

\* block delivery and the orphan pool
NextNode == OnBlock \/ Tick

SpecNode == InitNode /\ [][NextNode]_vars

\* the node receiving a chain out of order
NextOrphans == OnFamilyBlock \/ Tick

SpecOrphans == InitNode /\ [][NextOrphans]_vars

\* the mempool and the blocks that empty it
NextMempool == OnTx \/ PostTx \/ RelayTx \/ OnMinedBlock

SpecMempool == InitNode /\ [][NextMempool]_vars

-----------------------------------------------------------------------------
(* The tasks that lock the NodeHandle: node/src/p2p/service.rs (block
   handler), node/src/main.rs (mining loop), node/src/server/mod.rs (queries) *)

PeerTasks == {"p2p1", "p2p2"}

\* what two peers deliver at once: blocks on the tip that spend the same coin
SpendBlocks(d) ==
    UNION {{MinedBlock(d, p, <<tx>>) : tx \in GoodSpends(d, Timestamp(d.h[p].index + 1))}
           : p \in {q \in DOMAIN d.h : d.tip = Some(q)}}

\* main.rs: the reward the mining loop pays itself
current_block_reward == 50

\* the block the mining loop of main.rs assembles from the node state
MainBlock(d, tip, txs) ==
    LET index == IF tip # None /\ load_header(d, tip[1]) # None
                   THEN load_header(d, tip[1])[1].index + 1 ELSE 0
        prev == IF tip # None THEN tip[1] ELSE ZeroHash
        all == <<coinbase(MinerAddress, current_block_reward, Timestamp(index))>> \o txs
        header == BlockHeader(index, prev, compute_merkle_root(Txids(all)),
                              Timestamp(index), 1, DefaultDifficulty)
    IN  Block(header, all, compute_header_hash(header))

TaskMoves(t, task) == [tasks EXCEPT !.task[t] = task]

Released(t) == [guard |-> "free", task |-> [tasks.task EXCEPT ![t] = IdleTask]]

\* a peer delivers a block: set_on_block spawns the handler
ReceiveBlock ==
    /\ Len(accepted) < MaxBlocks
    /\ \E t \in PeerTasks, block \in SpendBlocks(db) :
          /\ tasks.task[t].pc = "idle"
          /\ tasks' = TaskMoves(t, [pc |-> "lock", block |-> Some(block), v |-> None])
    /\ UNCHANGED <<db, chain_tip, blockchain, pending, seen_tx, orphan_blocks,
                   mining_cancel_flag, now, miner, accepted, last>>

\* the mining loop of main.rs starts a cycle
WakeMiner ==
    /\ Len(accepted) < MaxBlocks
    /\ tasks.task["main"].pc = "idle"
    /\ tasks' = TaskMoves("main", [IdleTask EXCEPT !.pc = "lock"])
    /\ UNCHANGED <<db, chain_tip, blockchain, pending, seen_tx, orphan_blocks,
                   mining_cancel_flag, now, miner, accepted, last>>

\* GET /address/{address}/balance arrives
Query ==
    /\ tasks.task["http"].pc = "idle"
    /\ tasks' = TaskMoves("http", [IdleTask EXCEPT !.pc = "lock"])
    /\ UNCHANGED <<db, chain_tip, blockchain, pending, seen_tx, orphan_blocks,
                   mining_cancel_flag, now, miner, accepted, last>>

\* node.lock().unwrap() returns
Acquire ==
    /\ \E t \in TaskNames :
          /\ tasks.task[t].pc = "lock"
          /\ MayLock(tasks.guard)
          /\ tasks' = [guard |-> t,
                       task |-> [tasks.task EXCEPT ![t].pc = AfterLock(t)]]
    /\ UNCHANGED <<db, chain_tip, blockchain, pending, seen_tx, orphan_blocks,
                   mining_cancel_flag, now, miner, accepted, last>>

\* the block handler cancels ongoing mining
StoreFlag ==
    /\ \E t \in PeerTasks :
          /\ tasks.task[t].pc = "flag"
          /\ tasks' = TaskMoves(t, [tasks.task[t] EXCEPT !.pc = "validate"])
    /\ mining_cancel_flag' = TRUE
    /\ UNCHANGED <<db, chain_tip, blockchain, pending, seen_tx, orphan_blocks,
                   now, miner, accepted, last>>

\* validate_and_insert_block of the block handler, up to its commit
ValidatePeerBlock ==
    /\ \E t \in PeerTasks :
          /\ tasks.task[t].pc = "validate"
          /\ tasks' = TaskMoves(t, [tasks.task[t] EXCEPT
                            !.pc = "commit",
                            !.v = Some(ValidateBlock(db, tasks.task[t].block[1]))])
    /\ UNCHANGED <<db, chain_tip, blockchain, pending, seen_tx, orphan_blocks,
                   mining_cancel_flag, now, miner, accepted, last>>

\* the commit of the block handler's validate_and_insert_block and the rest
\* of the handler, until the guard is dropped
CommitPeerBlock ==
    /\ \E t \in PeerTasks :
          /\ tasks.task[t].pc = "commit"
          /\ \E io_ok \in IF IsOk(tasks.task[t].v[1].res) THEN BOOLEAN ELSE {TRUE} :
             \E order \in Orders(DOMAIN orphan_blocks) :
             \E orphan_io \in IF orphan_blocks = EmptyMap THEN {TRUE} ELSE BOOLEAN :
               LET block == tasks.task[t].block[1]
                   r == CommitBlock(db, chain_tip, block, tasks.task[t].v[1], io_ok)
               IN  /\ NodeBecomes(on_block(NodeView, block, r, order, orphan_io, now))
                   /\ last' = [Called("on_block", r.res) EXCEPT
                                   !.io = IsOk(r.res) => orphan_io]
          /\ tasks' = Released(t)
    /\ UNCHANGED <<seen_tx, mining_cancel_flag, now, miner>>

\* the mining loop has its block and the outcome of the validation
Validated(block) ==
    [pc |-> "commit", block |-> Some(block), v |-> Some(ValidateBlock(db, block))]

\* the mining loop drains the mempool, assembles its block and validates it
MineAndValidate ==
    /\ tasks.task["main"].pc = "validate"
    /\ \E block \in {MainBlock(db, chain_tip, pending)} :
          tasks' = TaskMoves("main", Validated(block))
    /\ pending' = << >>
    /\ UNCHANGED <<db, chain_tip, blockchain, seen_tx, orphan_blocks,
                   mining_cancel_flag, now, miner, accepted, last>>

\* the commit of the mining loop's validate_and_insert_block and both of its
\* branches, until the guard is dropped
CommitMinedBlock ==
    /\ tasks.task["main"].pc = "commit"
    /\ \E io_ok \in IF IsOk(tasks.task["main"].v[1].res) THEN BOOLEAN ELSE {TRUE} :
          LET block == tasks.task["main"].block[1]
              r == CommitBlock(db, chain_tip, block, tasks.task["main"].v[1], io_ok)
          IN  /\ db' = r.db
              /\ chain_tip' = r.chain_tip
              /\ last' = Called("main", r.res)
              /\ IF IsOk(r.res)
                    THEN /\ blockchain' = Append(blockchain, block)
                         /\ pending' = << >>
                         /\ accepted' = Append(accepted, Accepted("main", block, db))
                  ELSE /\ pending' = pending \o Tail(block.transactions)
                       /\ UNCHANGED <<blockchain, accepted>>
    /\ tasks' = Released("main")
    /\ UNCHANGED <<seen_tx, orphan_blocks, mining_cancel_flag, now, miner>>

\* the balance route reads the store and answers
Answer ==
    /\ tasks.task["http"].pc = "read"
    /\ last' = [op |-> "get_balance", address |-> MinerAddress,
                balance |-> get_balance(db, MinerAddress)]
    /\ tasks' = Released("http")
    /\ UNCHANGED <<db, chain_tip, blockchain, pending, seen_tx, orphan_blocks,
                   mining_cancel_flag, now, miner, accepted>>

\* the getheaders handler: the headers of the last HeadersCap blocks of the
\* in-memory vector, in the order of the vector
getheaders(chain) ==
    LET n == Len(chain)
        first == IF n > HeadersCap THEN n - HeadersCap + 1 ELSE 1
    IN  [k \in 1..(n - first + 1) |-> chain[first + k - 1].header]

\* a peer asks for headers
GetHeaders ==
    /\ last' = [op |-> "getheaders", headers |-> getheaders(blockchain)]
    /\ UNCHANGED <<db, chain_tip, accepted>>
    /\ UNCHANGED nodeVars

\* a node that receives blocks and serves headers
NextHeaders == OnFamilyBlock \/ GetHeaders

SpecHeaders == InitNode /\ [][NextHeaders]_vars

\* the sources of blocks: two peers and the local miner
NextIngest ==
    \/ ReceiveBlock \/ WakeMiner \/ Acquire \/ StoreFlag \/ ValidatePeerBlock
    \/ CommitPeerBlock \/ MineAndValidate \/ CommitMinedBlock

SpecIngest == InitNode /\ [][NextIngest]_vars

\* the same with the HTTP queries beside them
NextQueries == NextIngest \/ Query \/ Answer

SpecQueries == InitNode /\ [][NextQueries]_vars

\* what reaches POST /tx while the node mines: the wallet's transactions and a
\* spend, under a signature that verifies, of an output no block ever created
StuckTx(d) == WeakSpend(<<<<UnknownHash, 0>>>>, 1, NextTimestamp(d))

\* post_tx takes the node mutex, which the mining loop holds for its cycle
PostWhileMining ==
    /\ tasks.guard = "free"
    /\ PostTxUpTo(SubmittedTxs(db) \cup {StuckTx(db)}, MaxMempool)

\* the commits of the mining loop that the store lets through
MinedBlockIsStored == CommitMinedBlock /\ last'.msg # "storage error"

NextMining ==
    PostWhileMining \/ WakeMiner \/ Acquire \/ MineAndValidate \/ CommitMinedBlock

\* the mining loop is a spawned task that loops for ever: none of its steps
\* is postponed for ever, and the store does not fail for ever
SpecMining ==
    /\ InitNode
    /\ [][NextMining]_vars
    /\ WF_vars(WakeMiner) /\ WF_vars(Acquire) /\ WF_vars(MineAndValidate)
    /\ WF_vars(CommitMinedBlock) /\ SF_vars(MinedBlockIsStored)

-----------------------------------------------------------------------------
(* The ledger log: what the accepted blocks created and consumed *)

LoggedBlocks == {k \in DOMAIN accepted : accepted[k].via # "create_genesis"}

Outpoint(inp) == <<inp.txid, inp.vout>>

\* every input of every transaction of every accepted block
SpendRefs ==
    UNION {UNION {{<<k, i, j>> : j \in DOMAIN accepted[k].block.transactions[i].inputs}
                  : i \in DOMAIN accepted[k].block.transactions}
           : k \in DOMAIN accepted}

SpentBy(ref) == Outpoint(accepted[ref[1]].block.transactions[ref[2]].inputs[ref[3]])

SpentOutpoints == {SpentBy(ref) : ref \in SpendRefs}

CreatedOutpoints ==
    UNION {UNION {{<<accepted[k].block.transactions[i].txid, v - 1>> :
                        v \in DOMAIN accepted[k].block.transactions[i].outputs}
                  : i \in DOMAIN accepted[k].block.transactions}
           : k \in DOMAIN accepted}

\* the value an accepted transaction consumed, read from the UTXO set the
\* block was validated against
LoggedInputSum(e, tx) ==
    SumSeq([j \in DOMAIN tx.inputs |->
                IF Outpoint(tx.inputs[j]) \in DOMAIN e.utxo_before
                  THEN e.utxo_before[Outpoint(tx.inputs[j])].amount ELSE 0])

\* the same with every UTXO counted once, however many inputs name it
LoggedUtxoSum(e, tx) ==
    SumSeq([j \in DOMAIN tx.inputs |->
                IF /\ Outpoint(tx.inputs[j]) \in DOMAIN e.utxo_before
                   /\ \A h \in 1..(j - 1) : Outpoint(tx.inputs[h]) # Outpoint(tx.inputs[j])
                  THEN e.utxo_before[Outpoint(tx.inputs[j])].amount ELSE 0])

LoggedCreated(e) ==
    SumSeq([i \in DOMAIN e.block.transactions |-> OutputSum(e.block.transactions[i])])

LoggedConsumed(e) ==
    SumSeq([i \in DOMAIN e.block.transactions |-> LoggedInputSum(e, e.block.transactions[i])])

LoggedFees(e) ==
    SumSeq([i \in DOMAIN e.block.transactions |->
                IF i = 1 THEN 0
                ELSE LoggedInputSum(e, e.block.transactions[i]) - OutputSum(e.block.transactions[i])])

-----------------------------------------------------------------------------
(* Claims on the ledger *)

\* C1: a call of validate_and_insert_block that returns an error (a failed
\* batch write included) leaves the persisted store and chain_tip exactly as
\* they were before the call.
C1_FailedInsertionChangesNothing ==
    [][last'.msg # "" => (db' = db /\ chain_tip' = chain_tip /\ accepted' = accepted)]_vars

\* a block that passed every check met a storage failure at the commit, on a
\* chain that already has a tip
C1_Witness ==
    /\ last.op = "validate_and_insert_block"
    /\ last.msg = "storage error"
    /\ chain_tip # None

\* C2: no outpoint is consumed by two accepted transactions, neither in two
\* accepted blocks nor twice in one block.
C2_NoDoubleSpend ==
    \A r1 \in SpendRefs : \A r2 \in SpendRefs :
        (<<r1[1], r1[2]>> # <<r2[1], r2[2]>>) => SpentBy(r1) # SpentBy(r2)

\* C3: a UTXO is in the store exactly when an accepted transaction created
\* that output and no accepted transaction has an input naming it.
C3_UtxoSetIsUnspentOutputs == DOMAIN db.u = CreatedOutpoints \ SpentOutpoints

\* C4: every accepted block at height h creates reward(h) plus its fees more
\* value than it consumes.
C4_ValueConservation ==
    \A k \in LoggedBlocks :
        LoggedCreated(accepted[k]) - LoggedConsumed(accepted[k])
            = calculate_block_reward(accepted[k].block.header.index) + LoggedFees(accepted[k])

\* C5: the coinbase of an accepted block at height h pays at most reward(h)
\* plus the fees of the block.
C5_CoinbaseBounded ==
    \A k \in LoggedBlocks :
        OutputSum(accepted[k].block.transactions[1])
            <= calculate_block_reward(accepted[k].block.header.index) + LoggedFees(accepted[k])

\* C6: the header of every accepted block satisfies the proof-of-work
\* predicate for the difficulty it states.
C6_AcceptedHeadersMeetDifficulty ==
    \A k \in DOMAIN accepted : MeetsDifficulty(accepted[k].block.header)

\* C8: for every transaction after the first of an accepted block, the
\* outputs sum to at most the amounts of the UTXOs that its inputs name in
\* the UTXO set the block was validated against, each UTXO counted once.
C8_OutputsWithinInputs ==
    \A k \in LoggedBlocks :
        \A i \in DOMAIN accepted[k].block.transactions :
            i > 1 => OutputSum(accepted[k].block.transactions[i])
                        <= LoggedUtxoSum(accepted[k], accepted[k].block.transactions[i])

\* C9: an accepted block is not empty, its first transaction has no inputs
\* and every other transaction has at least one input.
C9_CoinbaseShape ==
    \A k \in LoggedBlocks :
        /\ accepted[k].block.transactions # << >>
        /\ \A i \in DOMAIN accepted[k].block.transactions :
              (i = 1) <=> (accepted[k].block.transactions[i].inputs = << >>)

-----------------------------------------------------------------------------
(* Claims on the node *)

\* C7: a block with an input whose outpoint is not in the UTXO set is
\* refused with the missing-UTXO error: it is not accepted and it is not
\* placed in the orphan pool.
C7_MissingUtxoIsFatal ==
    [][(last'.op = "on_block" /\ last'.msg = "referenced utxo not found ")
          => (orphan_blocks' = orphan_blocks /\ db' = db /\ chain_tip' = chain_tip
              /\ accepted' = accepted)]_vars

\* the pre-image of a transaction: its inputs without their signatures, its
\* outputs and its timestamp
TxPreimage(tx) ==
    <<[i \in DOMAIN tx.inputs |-> [tx.inputs[i] EXCEPT !.signature = None]],
      tx.outputs, tx.timestamp>>

WellSigned(tx) ==
    \A i \in DOMAIN tx.inputs :
        /\ tx.inputs[i].signature # None
        /\ Ed25519Verify(tx.inputs[i].pubkey, TxPreimage(tx), tx.inputs[i].signature[1])

\* C10: a transaction passes signature verification exactly when every input
\* carries a signature that verifies under its public key over the pre-image:
\* the mempool holds only such transactions, and a submission made of such
\* inputs is not refused for its signatures.
C10_VerificationMatchesSignatures ==
    /\ \A k \in DOMAIN pending : WellSigned(pending[k])
    /\ (last.tx # None /\ WellSigned(last.tx[1]))
          => last.msg \in {"", "already in mempool", "duplicate"}


\* C11: every stored header above height 0 has a previous_hash that is the
\* hash of another stored header
C11_StoredHeadersHaveStoredParents ==
    \A h \in DOMAIN db.h :
        db.h[h].index > 0 =>
            /\ db.h[h].previous_hash \in DOMAIN db.h
            /\ db.h[h].previous_hash # h

\* a chain of three stored headers: the block at height 2 passed the parent
\* check against the stored block at height 1
C11_Witness ==
    /\ \E h \in DOMAIN db.h : db.h[h].index = 2
    /\ \E k \in DOMAIN accepted : accepted[k].block.header.index = 1
    /\ Cardinality(DOMAIN db.h) >= 3

\* the blocks a step put into the orphan pool
NewOrphans ==
    {h \in DOMAIN orphan_blocks' :
        h \notin DOMAIN orphan_blocks \/ orphan_blocks'[h] # orphan_blocks[h]}

\* C12: the block handler keeps a block whose only defect is an unknown
\* parent in the orphan pool, under its hash and with the time of receipt,
\* and leaves the ledger alone; a block that fails any other check never
\* enters the orphan pool.
C12_OnlyMissingParentIsOrphaned ==
    [][/\ (now' = now /\ last'.op = "on_block"
            /\ last'.msg = "previous header not found: ")
          => /\ db' = db /\ chain_tip' = chain_tip /\ accepted' = accepted
             /\ \E h \in DOMAIN orphan_blocks' :
                    /\ orphan_blocks'[h].block.hash = h
                    /\ orphan_blocks'[h].received_at = now
                    /\ ParentMissing(db, orphan_blocks'[h].block)
       /\ \A h \in NewOrphans :
            ErrMsg(ValidateBlock(db, orphan_blocks'[h].block).res)
                = "previous header not found: "]_vars

\* the fields of the node a delivery order could make differ
ProgramState(st) ==
    [db |-> st.db, chain_tip |-> st.chain_tip, blockchain |-> st.blockchain,
     pending |-> st.pending, orphan_blocks |-> st.orphan_blocks]

\* the block handler called with block at time t, the store taking every write
Deliver(st, block, order, t) ==
    on_block(st, block, validate_and_insert_block(st.db, st.chain_tip, block, TRUE),
             order, TRUE, t)

\* the node had the block handler not yet seen the orphan stored under h
Without(h) ==
    [NodeView EXCEPT !.orphan_blocks = MapDelete(@, h)]

\* the blocks of the orphan pool that wait for one of the hashes
WaitingFor(hashes) ==
    {h \in DOMAIN orphan_blocks : orphan_blocks[h].block.header.previous_hash \in hashes}

\* a step of the block handler that accepts a block A new to the node, while
\* its child B, valid on top of A, waits in the orphan pool under h, and the
\* store takes every write
ParentArrives(h, A, B) ==
    /\ Len(accepted') > Len(accepted)
    /\ last'.op = "on_block" /\ last'.io
    /\ A.header.index > 0
    /\ A.hash \notin DOMAIN db.h \cup DOMAIN orphan_blocks
    /\ B.hash = h
    /\ B.header.previous_hash = A.hash
    /\ IsOk(ValidateBlock(validate_and_insert_block(db, chain_tip, A, TRUE).db, B).res)

\* the step has left the node where delivering A and then B leaves it: both
\* stored, the child on top and out of the pool
SameAsInOrder(h, A, B) ==
    /\ \A order \in Orders(DOMAIN orphan_blocks) :
          ProgramState(Deliver(Deliver(Without(h), A, order, now), B, order, now))
            = [db |-> db', chain_tip |-> chain_tip', blockchain |-> blockchain',
               pending |-> pending', orphan_blocks |-> orphan_blocks']
    /\ {A.hash, B.hash} \subseteq DOMAIN db'.h
    /\ chain_tip' = Some(B.hash)
    /\ db'.tip = Some(B.hash)
    /\ h \notin DOMAIN orphan_blocks'

AcceptedAgain ==
    /\ Len(accepted') > Len(accepted)
    /\ \E k \in DOMAIN accepted :
          accepted[k].block = accepted'[Len(accepted) + 1].block

\* C14: accepting a block a second time, at once or after further blocks
\* were accepted and its coinbase output was spent, changes neither the
\* headers, the transactions, the UTXO set, the height index nor the tip.
C14_SecondAcceptanceChangesNothing ==
    [][AcceptedAgain => (db' = db /\ chain_tip' = chain_tip)]_vars

\* the stored headers reachable from the header stored under h by following
\* previous_hash
RECURSIVE Ancestors(_, _)
Ancestors(d, h) ==
    IF d.h[h].previous_hash \in DOMAIN d.h
      THEN {d.h[h].previous_hash} \cup Ancestors(d, d.h[h].previous_hash)
    ELSE {}

\* C15: the tip names a stored header, and no header reachable from it by
\* following previous_hash has an index as high as the tip's.
C15_TipIsHighestOnItsChain ==
    \A t \in {chain_tip, db.tip} \ {None} :
        /\ t[1] \in DOMAIN db.h
        /\ \A a \in Ancestors(db, t[1]) : db.h[a].index < db.h[t[1]].index

\* the height in the header is the height of the block on its chain
AtItsHeight(d, header) ==
    IF header.index = 0 THEN header.previous_hash = ZeroHash
    ELSE /\ header.previous_hash \in DOMAIN d.h
         /\ header.index = d.h[header.previous_hash].index + 1

\* a step accepted a block that is no higher than the tip was
AcceptedNoHigher ==
    /\ Len(accepted') > Len(accepted)
    /\ chain_tip # None
    /\ AtItsHeight(db, accepted'[Len(accepted) + 1].block.header)
    /\ accepted'[Len(accepted) + 1].block.header.index <= db.h[chain_tip[1]].index

\* C16: accepting a valid block whose height is not above the tip's stores
\* its header and leaves the persisted tip and chain_tip as they were.
C16_LowerBlockKeepsTip ==
    [][AcceptedNoHigher =>
          /\ accepted'[Len(accepted) + 1].block.hash \in DOMAIN db'.h
          /\ chain_tip' = chain_tip
          /\ db'.tip = db.tip]_vars

\* the accepted block with hash h
BlockOf(h) ==
    accepted[CHOOSE k \in DOMAIN accepted : accepted[k].block.hash = h].block

\* the store after the blocks of one chain only, from its first block up to
\* the block with hash h, and whether each of them was valid in its turn
ReplayApply(r, v) ==
    [db |-> IF IsOk(v.res) THEN ApplyBatch(r.db, v.batch) ELSE r.db,
     ok |-> r.ok /\ IsOk(v.res)]

ReplayStep(r, block) == ReplayApply(r, ValidateBlock(r.db, block))

RECURSIVE Replay(_)
Replay(h) ==
    ReplayStep(IF BlockOf(h).header.index = 0
                 THEN [db |-> EmptyDb, ok |-> TRUE]
               ELSE Replay(BlockOf(h).header.previous_hash),
               BlockOf(h))

\* block extends a stored chain and is valid after the blocks of that chain
ValidOnItsChain(block) ==
    /\ block.header.index > 0
    /\ block.hash \notin DOMAIN db.h
    /\ block.header.previous_hash \in DOMAIN db.h
    /\ ReplayStep(Replay(block.header.previous_hash), block).ok

\* C17: the node adopts a longer competing chain: each block of a chain that
\* is valid when only that chain's blocks are applied from genesis is
\* accepted, whatever the branch the node is on has spent.
C17_ForkBlocksAreAccepted ==
    \A block \in CandidateBlocks(db) :
        ValidOnItsChain(block) => IsOk(ValidateBlock(db, block).res)

\* C18: in every state a reader can see, when the tip key holds a hash then
\* load_header of that hash returns a header; the same for chain_tip.
C18_TipNamesStoredHeader ==
    \A t \in {db.tip, chain_tip} \ {None} : load_header(db, t[1]) # None

\* the tip has moved twice and the last commit was refused by the store
C18_Witness ==
    /\ Len(accepted) >= 2
    /\ last.msg = "storage error"
    /\ db.tip = Some(accepted[Len(accepted)].block.hash)
    /\ load_header(db, db.tip[1]) = Some(accepted[Len(accepted)].block.header)

\* the txids of the blocks a step accepted
NewlyAcceptedTxids ==
    UNION {{accepted'[k].block.transactions[i].txid
                : i \in DOMAIN accepted'[k].block.transactions}
           : k \in (DOMAIN accepted') \ (DOMAIN accepted)}

\* C19: when the block handler accepts a block, directly or as a resolved
\* orphan, the mempool afterwards is the mempool before without the
\* transactions whose txid is in an accepted block, in the same order:
\* nothing else is dropped, nothing is added, it does not grow.
C19_MempoolLosesOnlyIncluded ==
    [][(last'.op = "on_block" /\ Len(accepted') > Len(accepted))
          => /\ pending' = SelectSeq(pending, LAMBDA tx : tx.txid \notin NewlyAcceptedTxids)
             /\ Len(pending') <= Len(pending)]_vars

\* a resolved orphan took its transaction out of the mempool
C19_Witness ==
    /\ last.op = "on_block" /\ last.msg = ""
    /\ pending = << >>
    /\ accepted[Len(accepted)].via = "process_orphan_blocks"
    /\ Len(accepted[Len(accepted)].block.transactions) > 1

\* C20: on a store without a tip, create_genesis commits one block at height
\* 0 with a previous_hash of 64 zeros and a single coinbase paying the reward
\* of height 0 to the address; afterwards the balance of the address is that
\* reward, and i:0 and tip hold the hash of the block.
C20_GenesisPaysInitialReward ==
    [][(chain_tip = None /\ last'.op = "create_genesis" /\ last'.msg = "")
          => LET block == accepted'[Len(accepted')].block IN
             /\ Len(accepted') = Len(accepted) + 1
             /\ block.header.index = 0
             /\ block.header.previous_hash = ZeroHash
             /\ Len(block.transactions) = 1
             /\ block.transactions[1].inputs = << >>
             /\ block.transactions[1].outputs
                    = <<TransactionOutput(MinerAddress, calculate_block_reward(0))>>
             /\ get_balance(db', MinerAddress) = calculate_block_reward(0)
             /\ db'.i[0] = block.hash
             /\ db'.tip = Some(block.hash)
             /\ chain_tip' = Some(block.hash)]_vars

\* h1 <= h2 on u64 heights
HeightLeq(h1, h2) ==
    \/ h1.epoch_hi < h2.epoch_hi
    \/ /\ h1.epoch_hi = h2.epoch_hi
       /\ \/ h1.epoch_lo < h2.epoch_lo
          \/ h1.epoch_lo = h2.epoch_lo /\ h1.offset <= h2.offset

\* floor(initial reward / 2^(h div HALVING_INTERVAL)) below 33 halvings, 0 from
\* 33 halvings on
HalvedReward(h) ==
    IF h.epoch_hi > 0 \/ h.epoch_lo >= 33 THEN 0
    ELSE Shr(initial_block_reward, h.epoch_lo)

\* C21: calculate_block_reward(h) is the initial reward halved once per
\* completed epoch of HALVING_INTERVAL blocks while h div HALVING_INTERVAL is
\* below 33, it is 0 from 33 epochs on, and it never increases with h.
C21_RewardHalvesAndNeverGrows ==
    last.op = "calculate_block_reward" =>
        /\ last.reward = HalvedReward(last.height)
        /\ \A h \in Heights :
              HeightLeq(last.height, h) => calculate_block_reward_u64(h) <= last.reward

\* tx with the signature of input i replaced
WithSignature(tx, i, signature) ==
    [tx EXCEPT !.inputs[i].signature = signature]

\* C22: the txid does not depend on the signatures: compute_txid gives the
\* same value before and after sign(), and transactions that differ only
\* in the signature of an input have the same txid.
C22_TxidIgnoresSignatures ==
    last.op = "sign" =>
        /\ compute_txid(last.after) = compute_txid(last.before)
        /\ \A i \in DOMAIN last.after.inputs :
              compute_txid(WithSignature(last.after, i, None)) = compute_txid(last.after)

\* the signed transaction with one input's public key replaced by another
\* key, or one field of the signed pre-image modified
Tampered(tx) ==
    {[tx EXCEPT !.inputs[i].pubkey = k] :
        i \in DOMAIN tx.inputs, k \in WalletKeys \ {tx.inputs[1].pubkey}}
    \cup {[tx EXCEPT !.inputs[i].vout = 1] : i \in DOMAIN tx.inputs}
    \cup {[tx EXCEPT !.outputs[1].amount = 12], [tx EXCEPT !.timestamp = 3]}

\* C23: for a transaction with at least one input, verify_signatures
\* succeeds immediately after sign() with a keypair, and fails once an
\* input's public key is replaced by a different key or a field of the
\* pre-image (outpoint, outputs, timestamp) is modified.
C23_SignThenVerifyRoundTrip ==
    (last.op = "sign" /\ last.before.inputs # << >>) =>
        /\ last.verified = "true"
        /\ \A tx \in Tampered(last.after) : verify_signatures(tx) # "true"

\* C24: once the cancellation flag is set while mine_block_with_coinbase
\* searches, the search makes at most one yield cycle of attempts before it
\* returns, and it never returns a mined block from an iteration that
\* started with the flag set.
C24_CancelledMinerStops ==
    /\ miner.late <= YieldCycle
    /\ miner.pc = "mined" => ~miner.began

\* the flag was set during the search and the search returned the error
C24_Witness ==
    /\ miner.pc = "cancelled"
    /\ miner.nonce > 0

\* C26: over any sequence of mining calls for heights of one epoch, the DAG
\* of the epoch is generated at most once.
C26_EpochDagGeneratedOnce ==
    \A j, k \in DOMAIN miner.generated :
        miner.generated[j] = miner.generated[k] => j = k

\* C25: whenever a block delivered by a peer is accepted, by the block
\* handler or by the orphan pass it runs, the mining cancellation flag has
\* been set before the acceptance becomes visible.
C25_FlagSetBeforeAcceptance ==
    [][(/\ Len(accepted') > Len(accepted)
        /\ accepted'[Len(accepted')].via \in {"on_block", "process_orphan_blocks"})
          => mining_cancel_flag /\ mining_cancel_flag']_vars

\* the first block a peer delivered has been accepted
C25_Witness ==
    /\ Len(accepted) = 2
    /\ accepted[2].via = "on_block"
    /\ mining_cancel_flag

\* C27: a balance query never waits for the node mutex: whenever it has
\* called lock(), the guard can be handed to it, whichever task is ingesting
\* a block or mining.
C27_QueryNeverWaits ==
    tasks.task["http"].pc = "lock" => MayLock(tasks.guard)

\* the outpoints the transactions of an accepted block name as inputs
InputsOf(block) ==
    UNION {{<<block.transactions[i].inputs[j].txid, block.transactions[i].inputs[j].vout>>
                : j \in DOMAIN block.transactions[i].inputs}
           : i \in DOMAIN block.transactions}

\* C28: block ingestions of concurrent sources never overlap: no two tasks
\* stand between the UTXO lookups of a validation and its commit, and no
\* two accepted blocks spend the same UTXO.
C28_IngestionsNeverOverlap ==
    /\ \A t, u \in TaskNames :
          (tasks.task[t].pc = "commit" /\ tasks.task[u].pc = "commit") => t = u
    /\ \A j, k \in DOMAIN accepted :
          j # k => InputsOf(accepted[j].block) \cap InputsOf(accepted[k].block) = {}

\* two peers delivered blocks that spend the same coin: one was accepted,
\* and the other has just been refused for the coin it no longer finds
C28_Witness ==
    /\ last.op = "on_block"
    /\ last.msg = "referenced utxo not found "
    /\ \E k \in DOMAIN accepted :
          accepted[k].via = "on_block" /\ InputsOf(accepted[k].block) # {}

\* C29: the getheaders handler returns at most 200 headers, oldest first,
\* all of the current best chain: the previous_hash of each is the hash of
\* the header returned before it, and the last one is the tip.
C29_HeadersAreBestChain ==
    last.op = "getheaders" =>
        /\ Len(last.headers) <= HeadersCap
        /\ \A k \in DOMAIN last.headers :
              k > 1 => last.headers[k].previous_hash = compute_header_hash(last.headers[k - 1])
        /\ last.headers # << >> =>
              chain_tip = Some(compute_header_hash(last.headers[Len(last.headers)]))

\* the first transaction of txs that fails one of its checks, and the check:
\* the signatures, then for a transaction after the coinbase the outputs it
\* spends, then its sums
TxFails(d, tx, i) ==
    \/ verify_signatures(tx) # "true"
    \/ i > 1 /\ (FirstMissingInput(d, tx) # 0 \/ OutputSum(tx) > InputSum(d, tx))

FirstTxFailure(d, txs) ==
    LET bad == {i \in DOMAIN txs : TxFails(d, txs[i], i)}
        i == Min(bad)
    IN  IF bad = {} THEN "none"
        ELSE IF verify_signatures(txs[i]) # "true" THEN "signature"
        ELSE IF FirstMissingInput(d, txs[i]) # 0 THEN "utxo"
        ELSE "sum"

\* the check a block fails first, in the order header hash, Merkle root,
\* parent, structure, transactions
FirstFailure(d, block) ==
    IF compute_header_hash(block.header) # block.hash THEN "hash"
    ELSE IF compute_merkle_root(Txids(block.transactions)) # block.header.merkle_root
      THEN "merkle"
    ELSE IF block.header.index > 0 /\ block.header.previous_hash \notin DOMAIN d.h
      THEN "parent"
    ELSE IF block.transactions = << >> \/ block.transactions[1].inputs # << >>
      THEN "structure"
    ELSE FirstTxFailure(d, block.transactions)

\* the check an error message of validate_and_insert_block belongs to
CheckOf(msg) ==
    CASE msg = "header hash mismatch: computed " -> "hash"
      [] msg = "merkle mismatch" -> "merkle"
      [] msg = "previous header not found: " -> "parent"
      [] msg \in {"empty block", "coinbase must have no inputs"} -> "structure"
      [] msg \in {"signature error", "tx signature invalid: "} -> "signature"
      [] msg = "referenced utxo not found " -> "utxo"
      [] msg = "outputs exceed inputs in tx " -> "sum"
      [] OTHER -> "none"

\* C30: validate_and_insert_block applies its checks in the order header
\* hash, Merkle root, parent, block structure, then per transaction the
\* signatures, the spent outputs and the sums, and returns the error of the
\* first check that fails; a block with a wrong hash or Merkle root and a
\* missing parent gets the hash or Merkle error, not the missing-parent one.
C30_FirstFailingCheckIsReported ==
    (last.op = "validate_and_insert_block" /\ "block" \in DOMAIN last) =>
        CheckOf(last.msg) = FirstFailure(last.before, last.block)

\* a block with a wrong hash and an unknown parent was refused for its hash
C30_Witness ==
    /\ last.op = "validate_and_insert_block"
    /\ "block" \in DOMAIN last
    /\ last.msg = "header hash mismatch: computed "
    /\ last.block.header.previous_hash \notin DOMAIN last.before.h

\* C31: in every reachable state the orphan pool holds at most
\* MAX_ORPHAN_BLOCKS entries, whatever parentless blocks peers deliver.
C31_OrphanPoolIsCapped ==
    Cardinality(DOMAIN orphan_blocks) <= MAX_ORPHAN_BLOCKS

\* C32: immediately after a run of orphan processing the pool holds no entry
\* older than ORPHAN_TIMEOUT, and the entries that are not older and were not
\* accepted are kept.
C32_OldOrphansAreDropped ==
    [][(last'.op = "on_block" /\ last'.msg = "" /\ now' = now)
          => /\ \A h \in DOMAIN orphan_blocks' :
                    now - orphan_blocks'[h].received_at <= ORPHAN_TIMEOUT
             /\ \A h \in DOMAIN orphan_blocks :
                    (/\ now - orphan_blocks[h].received_at <= ORPHAN_TIMEOUT
                     /\ \A k \in DOMAIN accepted' :
                            k > Len(accepted) => accepted'[k].block.hash # h)
                      => h \in DOMAIN orphan_blocks']_vars

\* the passes of the last handler call that accepted an orphan
ProcessingPasses(passes) == {k \in DOMAIN passes : passes[k]}

\* C33: process_orphan_blocks terminates: its outer loop runs at most
\* max_iterations passes, and another pass starts only after a pass in which
\* at least one orphan was accepted and removed from the pool.
C33_OrphanLoopIsBounded ==
    [][(last'.op = "on_block" /\ "passes" \in DOMAIN last' /\ now' = now)
          => LET passes == last'.passes
                 n == Cardinality(ProcessingPasses(passes))
             IN  /\ Len(passes) <= max_iterations
                 /\ \A k \in DOMAIN passes : k < Len(passes) => passes[k]
                 /\ Len(accepted') >= Len(accepted) + n
                 /\ n > 0 => Cardinality(DOMAIN orphan_blocks') + n
                                <= Cardinality(DOMAIN orphan_blocks)]_vars

\* a pass accepted an orphan and the pass after it found nothing to do
C33_Witness ==
    /\ last.op = "on_block"
    /\ "passes" \in DOMAIN last
    /\ last.passes = <<TRUE, FALSE>>

\* C34: under any interleaving of submissions through POST /tx,
\* POST /tx/relay and the p2p transaction callback, the mempool never holds
\* two transactions with the same txid.
C34_MempoolTxidsAreUnique ==
    \A j, k \in DOMAIN pending : pending[j].txid = pending[k].txid => j = k

\* C35: every block mine_block_with_coinbase returns carries the nonce that was
\* found in header.nonce, and its hash field is the block identifier
\* sha256d(encode(header)), the value the validator's header-hash check expects
C35_MinedBlockHashIsHeaderHash ==
    last.op = "mine" =>
        /\ last.block.header.nonce = last.nonce
        /\ last.block.hash = compute_header_hash(last.block.header)

\* C36: a block accepted at an index above 0 is one above its stored parent,
\* and a block at index 0 is accepted only while the store has no tip, so the
\* height in an accepted header is its distance from genesis
C36_AcceptedIndexIsParentPlusOne ==
    [][Len(accepted') > Len(accepted) =>
          LET header == accepted'[Len(accepted) + 1].block.header IN
          IF header.index = 0 THEN db.tip = None
          ELSE /\ header.previous_hash \in DOMAIN db.h
               /\ header.index = db.h[header.previous_hash].index + 1]_vars

\* C37: every input of a transaction after the first of an accepted block
\* carries the public key whose address is the to-address of the UTXO the
\* input spends: only the owner of an output spends it
C37_OnlyTheOwnerSpends ==
    \A k \in LoggedBlocks :
        \A i \in DOMAIN accepted[k].block.transactions :
            \A j \in DOMAIN accepted[k].block.transactions[i].inputs :
                LET inp == accepted[k].block.transactions[i].inputs[j] IN
                (i > 1 /\ Outpoint(inp) \in DOMAIN accepted[k].utxo_before) =>
                    address_from_public_key(inp.pubkey)
                        = accepted[k].utxo_before[Outpoint(inp)].to

\* C38: no transaction of an accepted block names the same (prev_txid, vout)
\* in two of its inputs
C38_InputsOfATxAreDistinct ==
    \A k \in LoggedBlocks :
        \A i \in DOMAIN accepted[k].block.transactions :
            LET inputs == accepted[k].block.transactions[i].inputs IN
            \A j1 \in DOMAIN inputs : \A j2 \in DOMAIN inputs :
                Outpoint(inputs[j1]) = Outpoint(inputs[j2]) => j1 = j2

\* C39: in every state of a Blockchain instance chain_tip is the value stored
\* under the tip key, both absent before genesis, and chain_tip changes only
\* in a call that returned Ok, after its batch with the new tip was written
C39_ChainTipIsPersistedTip ==
    [][/\ chain_tip = db.tip
       /\ chain_tip' = db'.tip
       /\ chain_tip' # chain_tip =>
              /\ last'.msg = ""
              /\ Len(accepted') = Len(accepted) + 1
              /\ chain_tip' = Some(accepted'[Len(accepted')].block.hash)]_vars

\* a block passed validation on a chain of two blocks, its batch failed in
\* the store, and the tip is still the one the store holds
C39_Witness ==
    /\ last.op = "validate_and_insert_block"
    /\ last.msg = "storage error"
    /\ Len(accepted) = 2
    /\ chain_tip = db.tip
    /\ chain_tip # None

\* the transactions the node holds: in the mempool, or drained into the block
\* the mining loop is about to commit
HeldTxs ==
    Len(pending)
      + (IF tasks.task["main"].pc = "commit"
           THEN Len(tasks.task["main"].block[1].transactions) - 1 ELSE 0)

\* C40: under a fair mining loop a transaction in the mempool does not block
\* progress: from every state in which the node holds a transaction and has
\* accepted n blocks, a later state has more than n accepted blocks or holds
\* no transaction (each was included in an accepted block or dropped)
C40_PendingTxDoesNotBlockMining ==
    \A n \in 1..(MaxBlocks - 1) :
        (HeldTxs > 0 /\ Len(accepted) = n) ~> (Len(accepted) > n \/ HeldTxs = 0)

====
